---- MODULE Spec2Model ----
(***************************************************************************)
(* Model of the survey pipeline of HGC_OGP_DB (rwOGP).                     *)
(*                                                                         *)
(* One invocation of the command line program (rwOGP/main.py) loads the    *)
(* configuration, lets the InventoryUpdater discover the survey files that *)
(* are not yet in the inventory, parses them (DataParser.__call__) and     *)
(* hands the parsed lists to SurveyProcessor.process_and_upload, which     *)
(* builds one record per file (__getArgs__) and uploads it through the     *)
(* database client.  The database client and the operator at the terminal  *)
(* are the environment: every answer they can give is a choice.            *)
(***************************************************************************)
EXTENDS Integers, Sequences, FiniteSets, TLC

\* Number of survey files in the (unchanged) survey directory.
NumFiles == 3

\* Number of invocations of the program that are explored.
MaxRuns == 2

\* The survey files, named by their rank in ascending file name order.
Files == 1..NumFiles

\* Component folder names the program is started on; "sensors" stands for
\* any name __getArgs__ does not recognise.
CompTypes == {"baseplates", "hexaboards", "protomodules", "modules", "sensors"}

\* Answers the operator can type at the continue prompt.
Answers == {"y", "n", "N", ""}

\* An explicit affirmative answer to a (y/n) prompt.
Affirmative == {"y"}

VARIABLES
    comp_type,              \* component folder the directory belongs to
    inventory,              \* files marked as uploaded in the inventory
    uploads,                \* per file: successful uploads stored in the database
    runs,                   \* invocations started so far
    pc,                     \* position of the current invocation
    data_file,              \* DataParser.data_file: the discovered files
    OGPSurveyFile,          \* SurveyProcessor.OGPSurveyFile
    MetaFile,               \* SurveyProcessor.MetaFile
    idx,                    \* loop index of process_and_upload
    last_successful_index,  \* local of process_and_upload
    ret,                    \* value returned by process_and_upload
    log,                    \* calls made in the current invocation, in order
    invAtStart,             \* inventory when the current invocation started
    prevRun,                \* how the previous invocation ended
    lastFailPrefix,         \* files before the failed file of the last failed run
    exitCode,               \* exit status of the last finished invocation
    cli,                    \* __main__: the parsed arguments and the branch taken
    plotter,                \* PlotTool object and the locals of get_offsets / angle
    parser,                 \* DataParser object and the locals of output_meta
    graded,                 \* arguments and result of a call of grade
    cred,                   \* update_credentials: its locals and the configuration file
    lookup,                 \* a lookup in angle_lookup: table entry, key and result
    tray                    \* TrayNo on its way from the survey header to the tray file

vars == <<comp_type, inventory, uploads, runs, pc, data_file, OGPSurveyFile, MetaFile, idx,
          last_successful_index, ret, log, invAtStart, prevRun,
          lastFailPrefix, exitCode, cli, plotter, parser, graded, cred, lookup,
          tray>>

\* The variables of the survey pipeline (main_func and below).
pipelineVars == <<comp_type, inventory, uploads, runs, pc, data_file, OGPSurveyFile,
                  MetaFile, idx, last_successful_index, ret, log, invAtStart,
                  prevRun, lastFailPrefix, exitCode>>

\* No value returned (yet).
NoRet == <<FALSE, -2>>

----------------------------------------------------------------------------
(* Helpers *)

Min(a, b) == IF a < b THEN a ELSE b

\* str.lower() on the answers of the operator.
Lower(s) == CASE s = "Y" -> "y"
              [] s = "N" -> "n"
              [] OTHER   -> s

\* str.rstrip('s') on the component folder names.
Singular(t) == CASE t = "baseplates"   -> "baseplate"
                 [] t = "hexaboards"   -> "hexaboard"
                 [] t = "protomodules" -> "protomodule"
                 [] t = "modules"      -> "module"
                 [] OTHER              -> "sensor"

RECURSIVE SortedSeq(_)
\* The elements of a set of files in ascending order.
SortedSeq(S) ==
    IF S = {} THEN <<>>
    ELSE LET m == CHOOSE x \in S : \A y \in S : x <= y
         IN  <<m>> \o SortedSeq(S \ {m})

\* unprocessed = (files found under the survey directory) - (inventory)
Discover(found, inv) == SortedSeq(found \ inv)

\* Outcomes of __getArgs__ for one file: the record is built, or one of the
\* exceptions of the record building propagates.
BuildOutcomes(t) ==
    CASE Singular(t) \in {"baseplate", "hexaboard"}  -> {"ok"}
      [] Singular(t) \in {"protomodule", "module"}   ->
            {"ok", "ValueMissingError", "ValueError", "ValueRangeError"}
      [] OTHER                                       -> {"ValueError"}

Event(op, i, res) == [op |-> op, idx |-> i, res |-> res]

\* The file processed at loop index i (0-based, as in the code).
FileAt(i) == OGPSurveyFile[i + 1]

\* Indices of the current invocation whose upload returned success.
UploadedIdx == {i \in 0..(NumFiles - 1) :
                   \E p \in 1..Len(log) :
                       log[p] \in {Event("link", i, "ok"), Event("pg", i, "ok")}}

\* Events of the current invocation.
Events == {log[p] : p \in 1..Len(log)}

\* The current invocation discovered its files and the upload of every one of
\* them returned success.
RunComplete ==
    /\ \E e \in Events : e.op = "discover"
    /\ UploadedIdx = 0..(Len(data_file) - 1)

\* How the current invocation went: the updater did not run ("none"), every
\* discovered file was uploaded ("complete"), or not ("aborted").
RunOutcome ==
    CASE ~(\E e \in Events : e.op = "discover") -> "none"
      [] RunComplete                            -> "complete"
      [] OTHER                                  -> "aborted"

----------------------------------------------------------------------------
(* The objects outside the pipeline loop, before anything ran *)

\* __main__ before parser.parse_args().
CliInit == [pc |-> "start", args |-> {}, ran |-> "none"]

\* No PlotTool constructed yet.
PlotToolInit ==
    [pc |-> "none", CompType |-> "", Geometry |-> "", Density |-> "",
     PositionID |-> 0, TrayNo |-> "", Hole |-> <<0, 0>>, rows |-> <<>>,
     FD_array |-> <<>>, fd_indices |-> {}, averaged |-> {},
     FDCenter |-> <<0, 0>>, XOffset |-> 0, YOffset |-> 0, AngleOff |-> 0,
     grade |-> "", error |-> "", at |-> "", miss |-> "none",
     record |-> {}, prior |-> "", Sensor |-> <<0, 0, 0>>, PCB |-> <<0, 0, 0>>]

\* No DataParser constructed yet.
DataParserInit ==
    [pc |-> "none", missing |-> {}, ComponentID |-> <<>>, Operator |-> <<>>,
     Geometry |-> "", Density |-> "", error |-> "", adopted |-> {}]

\* The configuration file as it is stored (get_default_config names the keys).
StoredConfig ==
    [host |-> "h0", database |-> "d0", user |-> "u0", password |-> "p0", intact |-> TRUE]

\* update_credentials not called yet.
CredInit ==
    [pc |-> "start", file |-> StoredConfig, verifiedCurrent |-> FALSE,
     matched |-> FALSE, verifiedNew |-> FALSE, new_host |-> "", new_database |-> "",
     new_user |-> "", new_password |-> "", ret |-> "none"]

\* No survey header read yet.
TrayInit == [pc |-> "none", header |-> <<>>, type |-> "str", TrayNo |-> -1,
             yaml |-> <<>>, error |-> "", file |-> <<>>]

\* No lookup made yet.
LookupInit ==
    [pc |-> "none", density_dict |-> <<>>, density |-> "", position |-> 0,
     angle_func |-> ""]

\* grade not called yet.
GradedInit == [pc |-> "none", CenterOffset |-> <<0, 0>>, AngleOff |-> 0, grade |-> "none"]

----------------------------------------------------------------------------
Init ==
    /\ comp_type \in CompTypes
    /\ inventory = {}
    /\ uploads = [f \in Files |-> 0]
    /\ runs = 0
    /\ pc = "idle"
    /\ data_file = <<>>
    /\ OGPSurveyFile = <<>>
    /\ MetaFile = <<>>
    /\ idx = 0
    /\ last_successful_index = -1
    /\ ret = NoRet
    /\ log = <<>>
    /\ invAtStart = {}
    /\ prevRun = "none"
    /\ lastFailPrefix = {}
    /\ exitCode = -1
    /\ cli = CliInit
    /\ plotter = PlotToolInit
    /\ parser = DataParserInit
    /\ graded = GradedInit
    /\ cred = CredInit
    /\ lookup = LookupInit
    /\ tray = TrayInit

\* main_func: load_config / verify_config, then the InventoryUpdater is built.
\* When the settings are missing or the configuration is not verified,
\* main_func returns without running the updater.
MainFunc ==
    /\ UNCHANGED <<cli, plotter, parser, graded, cred, lookup, tray>>
    /\ pc = "idle"
    /\ runs < MaxRuns
    /\ runs' = runs + 1
    /\ \E configOK \in BOOLEAN :
          pc' = IF configOK THEN "updater" ELSE "mainReturned"
    /\ data_file' = <<>>
    /\ OGPSurveyFile' = <<>>
    /\ MetaFile' = <<>>
    /\ idx' = 0
    /\ last_successful_index' = -1
    /\ ret' = NoRet
    /\ log' = <<>>
    /\ invAtStart' = inventory
    /\ prevRun' = RunOutcome
    /\ UNCHANGED <<comp_type, inventory, uploads, lastFailPrefix, exitCode>>

\* InventoryUpdater.__call__, first half: the files of the survey directory
\* that are not in the inventory are handed to the parser; with nothing to do
\* the updater returns.
UpdaterDiscover ==
    /\ UNCHANGED <<cli, plotter, parser, graded, cred, lookup, tray>>
    /\ pc = "updater"
    /\ data_file' = Discover(Files, inventory)
    /\ log' = Append(log, Event("discover", -1, "ok"))
    /\ pc' = IF Discover(Files, inventory) = <<>> THEN "mainReturned" ELSE "parse"
    /\ UNCHANGED <<comp_type, inventory, uploads, runs, OGPSurveyFile, MetaFile,
                   idx, last_successful_index, ret, invAtStart, prevRun,
                   lastFailPrefix, exitCode>>

\* DataParser.__call__: every file of data_file is parsed and yields one
\* feature csv and one metadata file (gen_features, gen_meta), or a check of
\* output_meta raises ParserKeyException.  The lists then construct the
\* SurveyProcessor, and process_and_upload starts (last_successful_index = -1).
Parse ==
    /\ UNCHANGED <<cli, plotter, parser, graded, cred, lookup, tray>>
    /\ pc = "parse"
    /\ \/ /\ OGPSurveyFile' = data_file
          /\ MetaFile' = data_file
          /\ last_successful_index' = -1
          /\ idx' = 0
          /\ log' = Append(log, Event("parse", -1, "ok"))
          /\ pc' = "loop"
       \/ /\ log' = Append(log, Event("parse", -1, "ParserKeyException"))
          /\ pc' = "raised"
          /\ UNCHANGED <<OGPSurveyFile, MetaFile, last_successful_index, idx>>
    /\ UNCHANGED <<comp_type, inventory, uploads, runs, data_file, ret,
                   invAtStart, prevRun, lastFailPrefix, exitCode>>

\* ForLoop with the index returned after the loop off by one.
ForLoopIndexOffByOne ==
    /\ UNCHANGED <<cli, plotter, parser, graded, cred, lookup, tray>>
    /\ pc = "loop"
    /\ IF idx < Min(Len(OGPSurveyFile), Len(MetaFile))
       THEN /\ pc' = "getArgs"
            /\ ret' = ret
       ELSE /\ pc' = "returned"
            /\ ret' = <<TRUE, last_successful_index - 1>>
    /\ UNCHANGED <<comp_type, inventory, uploads, runs, data_file, OGPSurveyFile,
                   MetaFile, idx, last_successful_index, log, invAtStart,
                   prevRun, lastFailPrefix, exitCode>>

\* process_and_upload, the head of
\*   for idx, (ex_file, meta_file) in enumerate(zip(OGPSurveyFile, MetaFile))
\* and the return after the loop.
ForLoop ==
    /\ UNCHANGED <<cli, plotter, parser, graded, cred, lookup, tray>>
    /\ pc = "loop"
    /\ IF idx < Min(Len(OGPSurveyFile), Len(MetaFile))
       THEN /\ pc' = "getArgs"
            /\ ret' = ret
       ELSE /\ pc' = "returned"
            /\ ret' = <<TRUE, last_successful_index>>
    /\ UNCHANGED <<comp_type, inventory, uploads, runs, data_file, OGPSurveyFile,
                   MetaFile, idx, last_successful_index, log, invAtStart,
                   prevRun, lastFailPrefix, exitCode>>

\* await self.__getArgs__(ex_file, meta_file, comp_type): the record of the
\* file is built, or an exception of the record building leaves
\* process_and_upload (there is no try/except around the call).
GetArgs ==
    /\ UNCHANGED <<cli, plotter, parser, graded, cred, lookup, tray>>
    /\ pc = "getArgs"
    /\ \E outcome \in BuildOutcomes(comp_type) :
          /\ log' = Append(log, Event("getArgs", idx, outcome))
          /\ pc' = IF outcome = "ok" THEN "link" ELSE "raised"
    /\ UNCHANGED <<comp_type, inventory, uploads, runs, data_file, OGPSurveyFile,
                   MetaFile, idx, last_successful_index, ret, invAtStart,
                   prevRun, lastFailPrefix, exitCode>>

\* status = await self.client.link_and_update_table(comp_params, db_upload)
\* On success the loop body ends with last_successful_index = idx.
LinkAndUpdateTable ==
    /\ UNCHANGED <<cli, plotter, parser, graded, cred, lookup, tray>>
    /\ pc = "link"
    /\ \E status \in BOOLEAN :
          /\ log' = Append(log, Event("link", idx, IF status THEN "ok" ELSE "fail"))
          /\ IF status = FALSE
             THEN /\ pc' = "prompt"
                  /\ UNCHANGED <<uploads, last_successful_index, idx>>
             ELSE /\ uploads' = [uploads EXCEPT ![FileAt(idx)] = @ + 1]
                  /\ last_successful_index' = idx
                  /\ idx' = idx + 1
                  /\ pc' = "loop"
    /\ UNCHANGED <<comp_type, inventory, runs, data_file, OGPSurveyFile, MetaFile,
                   ret, invAtStart, prevRun, lastFailPrefix, exitCode>>

\* ContinuePrompt returning the index of the declined file itself.
ContinuePromptReturnsIdx ==
    /\ UNCHANGED <<cli, plotter, parser, graded, cred, lookup, tray>>
    /\ pc = "prompt"
    /\ \E userinput \in Answers :
          /\ log' = Append(log, Event("prompt", idx, userinput))
          /\ IF Lower(userinput) = "n"
             THEN /\ ret' = <<FALSE, idx>>
                  /\ pc' = "returned"
             ELSE /\ ret' = ret
                  /\ pc' = "fallback"
    /\ UNCHANGED <<comp_type, inventory, uploads, runs, data_file, OGPSurveyFile,
                   MetaFile, idx, last_successful_index, invAtStart,
                   prevRun, lastFailPrefix, exitCode>>

\* userinput = input("Do you want to continue uploading this file without
\* component number linking? (y/n): "); 'n' returns, any other answer goes on.
ContinuePrompt ==
    /\ UNCHANGED <<cli, plotter, parser, graded, cred, lookup, tray>>
    /\ pc = "prompt"
    /\ \E userinput \in Answers :
          /\ log' = Append(log, Event("prompt", idx, userinput))
          /\ IF Lower(userinput) = "n"
             THEN /\ ret' = <<FALSE, last_successful_index>>
                  /\ pc' = "returned"
             ELSE /\ ret' = ret
                  /\ pc' = "fallback"
    /\ UNCHANGED <<comp_type, inventory, uploads, runs, data_file, OGPSurveyFile,
                   MetaFile, idx, last_successful_index, invAtStart,
                   prevRun, lastFailPrefix, exitCode>>

\* UploadPostgreSQL without the check of the fallback status: the loop body
\* runs on to last_successful_index = idx whatever the upload returned.
UploadPostgreSQLUnchecked ==
    /\ UNCHANGED <<cli, plotter, parser, graded, cred, lookup, tray>>
    /\ pc = "fallback"
    /\ \E status \in BOOLEAN :
          /\ log' = Append(log, Event("pg", idx, IF status THEN "ok" ELSE "fail"))
          /\ uploads' = IF status THEN [uploads EXCEPT ![FileAt(idx)] = @ + 1]
                        ELSE uploads
          /\ last_successful_index' = idx
          /\ idx' = idx + 1
          /\ pc' = "loop"
          /\ ret' = ret
    /\ UNCHANGED <<comp_type, inventory, runs, data_file, OGPSurveyFile, MetaFile,
                   invAtStart, prevRun, lastFailPrefix, exitCode>>

\* UploadPostgreSQL that skips a file whose fallback upload failed and goes on
\* with the next file of the batch.
UploadPostgreSQLSkipsFailed ==
    /\ UNCHANGED <<cli, plotter, parser, graded, cred, lookup, tray>>
    /\ pc = "fallback"
    /\ \E status \in BOOLEAN :
          /\ log' = Append(log, Event("pg", idx, IF status THEN "ok" ELSE "fail"))
          /\ IF status = FALSE
             THEN /\ idx' = idx + 1
                  /\ pc' = "loop"
                  /\ UNCHANGED <<uploads, last_successful_index>>
             ELSE /\ uploads' = [uploads EXCEPT ![FileAt(idx)] = @ + 1]
                  /\ last_successful_index' = idx
                  /\ idx' = idx + 1
                  /\ pc' = "loop"
          /\ ret' = ret
    /\ UNCHANGED <<comp_type, inventory, runs, data_file, OGPSurveyFile, MetaFile,
                   invAtStart, prevRun, lastFailPrefix, exitCode>>

\* UploadPostgreSQL that tries the linked upload of the same file again after
\* a failed fallback upload.
UploadPostgreSQLRetries ==
    /\ UNCHANGED <<cli, plotter, parser, graded, cred, lookup, tray>>
    /\ pc = "fallback"
    /\ \E status \in BOOLEAN :
          /\ log' = Append(log, Event("pg", idx, IF status THEN "ok" ELSE "fail"))
          /\ IF status = FALSE
             THEN /\ pc' = "link"
                  /\ UNCHANGED <<uploads, last_successful_index, idx>>
             ELSE /\ uploads' = [uploads EXCEPT ![FileAt(idx)] = @ + 1]
                  /\ last_successful_index' = idx
                  /\ idx' = idx + 1
                  /\ pc' = "loop"
          /\ ret' = ret
    /\ UNCHANGED <<comp_type, inventory, runs, data_file, OGPSurveyFile, MetaFile,
                   invAtStart, prevRun, lastFailPrefix, exitCode>>

\* status = await self.client.upload_PostgreSQL(comp_params, db_upload)
UploadPostgreSQL ==
    /\ UNCHANGED <<cli, plotter, parser, graded, cred, lookup, tray>>
    /\ pc = "fallback"
    /\ \E status \in BOOLEAN :
          /\ log' = Append(log, Event("pg", idx, IF status THEN "ok" ELSE "fail"))
          /\ IF status = FALSE
             THEN /\ ret' = <<FALSE, last_successful_index>>
                  /\ pc' = "returned"
                  /\ UNCHANGED <<uploads, last_successful_index, idx>>
             ELSE /\ uploads' = [uploads EXCEPT ![FileAt(idx)] = @ + 1]
                  /\ last_successful_index' = idx
                  /\ idx' = idx + 1
                  /\ pc' = "loop"
                  /\ ret' = ret
    /\ UNCHANGED <<comp_type, inventory, runs, data_file, OGPSurveyFile, MetaFile,
                   invAtStart, prevRun, lastFailPrefix, exitCode>>

\* The files a returned (status, index) reports as done.
Reported(r) == {FileAt(i) : i \in 0..r[2]}

\* InventoryUpdater.__call__, second half: the files up to the returned index
\* get their inventory entry.
UpdaterRecord ==
    /\ UNCHANGED <<cli, plotter, parser, graded, cred, lookup, tray>>
    /\ pc = "returned"
    /\ inventory' = inventory \cup Reported(ret)
    /\ lastFailPrefix' = IF ret[1] THEN {} ELSE {FileAt(i) : i \in 0..(idx - 1)}
    /\ pc' = "mainReturned"
    /\ UNCHANGED <<comp_type, uploads, runs, data_file, OGPSurveyFile, MetaFile,
                   idx, last_successful_index, ret, log, invAtStart,
                   prevRun, exitCode>>

\* asyncio.run(main_func(args.type)) returned: the script ends, exit status 0.
MainExit ==
    /\ UNCHANGED <<cli, plotter, parser, graded, cred, lookup, tray>>
    /\ pc = "mainReturned"
    /\ exitCode' = 0
    /\ pc' = "idle"
    /\ UNCHANGED <<comp_type, inventory, uploads, runs, data_file, OGPSurveyFile,
                   MetaFile, idx, last_successful_index, ret, log, invAtStart,
                   prevRun, lastFailPrefix>>

\* An exception left process_and_upload or the parser: nothing catches it in
\* the updater, main_func or __main__, the interpreter exits with status 1 and
\* no index was returned to record.
UncaughtException ==
    /\ UNCHANGED <<cli, plotter, parser, graded, cred, lookup, tray>>
    /\ pc = "raised"
    /\ exitCode' = 1
    /\ lastFailPrefix' = {OGPSurveyFile[i + 1] : i \in 0..(Min(idx, Len(OGPSurveyFile)) - 1)}
    /\ pc' = "idle"
    /\ UNCHANGED <<comp_type, inventory, uploads, runs, data_file, OGPSurveyFile,
                   MetaFile, idx, last_successful_index, ret, log, invAtStart,
                   prevRun>>

Next ==
    \/ MainFunc
    \/ UpdaterDiscover
    \/ Parse
    \/ ForLoop
    \/ GetArgs
    \/ LinkAndUpdateTable
    \/ ContinuePrompt
    \/ UploadPostgreSQL
    \/ UpdaterRecord
    \/ MainExit
    \/ UncaughtException

Spec == Init /\ [][Next]_vars

----------------------------------------------------------------------------
(* SurveyProcessor built on two lists of its caller's choice *)

\* The first n files, as a list of paths.
FileList(n) == [i \in 1..n |-> i]

\* SurveyProcessor.__init__(OGPSurveyFilePath, MetaFilePath, yamlconfig) and
\* the call of the object: a path that does not end in '.csv' raises
\* ValueError, an empty survey list raises IndexError at OGPSurveyFile[0],
\* the length of MetaFile is never looked at; process_and_upload then starts
\* with last_successful_index = -1.
SurveyProcessorNew ==
    /\ UNCHANGED <<cli, plotter, parser, graded, cred, lookup, tray>>
    /\ pc = "idle"
    /\ log = <<>>
    /\ \E n \in 0..NumFiles, m \in 0..NumFiles, csv \in BOOLEAN :
          /\ OGPSurveyFile' = FileList(n)
          /\ MetaFile' = FileList(m)
          /\ IF n > 0 /\ ~csv
             THEN /\ log' = Append(log, Event("init", -1, "ValueError"))
                  /\ pc' = "failed"
             ELSE IF n = 0
             THEN /\ log' = Append(log, Event("init", -1, "IndexError"))
                  /\ pc' = "failed"
             ELSE /\ log' = Append(log, Event("init", -1, "ok"))
                  /\ pc' = "loop"
    /\ last_successful_index' = -1
    /\ idx' = 0
    /\ UNCHANGED <<comp_type, inventory, uploads, runs, data_file, ret,
                   invAtStart, prevRun, lastFailPrefix, exitCode>>

NextProcessor ==
    \/ SurveyProcessorNew
    \/ ForLoop
    \/ GetArgs
    \/ LinkAndUpdateTable
    \/ ContinuePrompt
    \/ UploadPostgreSQL

SpecProcessor == Init /\ [][NextProcessor]_vars

----------------------------------------------------------------------------
(* The command line entry point: rwOGP/main.py, __main__ *)

\* The store_true options of the argument parser.
Flags == {"print", "clear", "updatedb", "updatedir", "debug", "disable", "test"}

\* args = parser.parse_args()
ParseArgs ==
    /\ cli.pc = "start"
    /\ \E given \in SUBSET Flags :
          cli' = [cli EXCEPT !.pc = "dispatch", !.args = given]
    /\ UNCHANGED <<pipelineVars, plotter, parser, graded, cred, lookup, tray>>

\* if args.print: invent_print(); sys.exit(0)
CliPrint ==
    /\ cli.pc = "dispatch"
    /\ "print" \in cli.args
    /\ cli' = [cli EXCEPT !.pc = "exited", !.ran = "invent_print"]
    /\ UNCHANGED <<pipelineVars, plotter, parser, graded, cred, lookup, tray>>

\* if args.clear: clear_invent(); sys.exit(0)
CliClear ==
    /\ cli.pc = "dispatch"
    /\ "print" \notin cli.args
    /\ "clear" \in cli.args
    /\ cli' = [cli EXCEPT !.pc = "exited", !.ran = "clear_invent"]
    /\ UNCHANGED <<pipelineVars, plotter, parser, graded, cred, lookup, tray>>

\* if args.updatedb: asyncio.run(update_credentials()); sys.exit(0)
CliUpdatedb ==
    /\ cli.pc = "dispatch"
    /\ cli.args \cap {"print", "clear"} = {}
    /\ "updatedb" \in cli.args
    /\ cli' = [cli EXCEPT !.pc = "exited", !.ran = "update_credentials"]
    /\ UNCHANGED <<pipelineVars, plotter, parser, graded, cred, lookup, tray>>

\* if args.updatedir: asyncio.run(update_directorys()); sys.exit(0)
CliUpdatedir ==
    /\ cli.pc = "dispatch"
    /\ cli.args \cap {"print", "clear", "updatedb"} = {}
    /\ "updatedir" \in cli.args
    /\ cli' = [cli EXCEPT !.pc = "exited", !.ran = "update_directorys"]
    /\ UNCHANGED <<pipelineVars, plotter, parser, graded, cred, lookup, tray>>

\* if args.test: test_workflow(); sys.exit(0)
CliTest ==
    /\ cli.pc = "dispatch"
    /\ cli.args \cap {"print", "clear", "updatedb", "updatedir"} = {}
    /\ "test" \in cli.args
    /\ cli' = [cli EXCEPT !.pc = "exited", !.ran = "test_workflow"]
    /\ UNCHANGED <<pipelineVars, plotter, parser, graded, cred, lookup, tray>>

\* asyncio.run(main_func(args.type)): reached when none of the branches above
\* left the program; args.disable is not read anywhere.
CliMainFunc ==
    /\ cli.pc = "dispatch"
    /\ cli.args \cap {"print", "clear", "updatedb", "updatedir", "test"} = {}
    /\ cli' = [cli EXCEPT !.pc = "exited", !.ran = "main_func"]
    /\ UNCHANGED <<pipelineVars, plotter, parser, graded, cred, lookup, tray>>

NextCli ==
    \/ ParseArgs
    \/ CliPrint
    \/ CliClear
    \/ CliUpdatedb
    \/ CliUpdatedir
    \/ CliTest
    \/ CliMainFunc

SpecCli == Init /\ [][NextCli]_vars

----------------------------------------------------------------------------
(* Quality grade: ogp_height_plotter.py, grade *)

\* Floating point values are kept in fixed point: lengths in units of 0.01 mm,
\* angles in units of 0.001 degree.  NaN is np.nan; every comparison with it
\* is false.
NaN == 1000000000

FloatLE(a, b) == a # NaN /\ b # NaN /\ a <= b
FloatGT(a, b) == a # NaN /\ b # NaN /\ a > b

\* x *= 1000 on a length in mm: the value in micrometers.
TimesThousand(v) == IF v = NaN THEN NaN ELSE v * 10

\* abs()
Abs(v) == IF v = NaN THEN NaN ELSE IF v < 0 THEN -v ELSE v

grade(CenterOffset, AngleOff) ==
    LET X_Offset == TimesThousand(CenterOffset[1])
        Y_Offset == TimesThousand(CenterOffset[2])
    IN  IF FloatLE(X_Offset, 50) /\ FloatLE(Y_Offset, 50) /\ FloatLE(AngleOff, 20)
        THEN "A"
        ELSE IF FloatLE(X_Offset, 100) /\ FloatLE(Y_Offset, 100) /\ FloatLE(AngleOff, 40)
             THEN "B"
             ELSE "C"

\* Arguments the function is applied to: axis offsets (0.01 mm) and angles
\* (0.001 degree) on both sides of every threshold, of either sign.
GradeLengths == {-11, -7, 0, 5, 6, 10, 11}
GradeAngles == {-41, -30, 0, 20, 21, 40, 41, NaN}

GradeArgs ==
    /\ graded.pc = "none"
    /\ \E x \in GradeLengths, y \in GradeLengths, a \in GradeAngles :
          graded' = [graded EXCEPT !.pc = "called", !.CenterOffset = <<x, y>>,
                                   !.AngleOff = a]
    /\ UNCHANGED <<pipelineVars, cli, plotter, parser, cred, lookup, tray>>

\* The first comparison is strict.
GradeCallStrict ==
    /\ graded.pc = "called"
    /\ LET X_Offset == TimesThousand(graded.CenterOffset[1])
           Y_Offset == TimesThousand(graded.CenterOffset[2])
           AngleOff == graded.AngleOff
       IN  graded' = [graded EXCEPT !.pc = "done", !.grade =
               IF X_Offset < 50 /\ Y_Offset < 50 /\ AngleOff < 20
               THEN "A"
               ELSE IF FloatLE(X_Offset, 100) /\ FloatLE(Y_Offset, 100)
                       /\ FloatLE(AngleOff, 40)
                    THEN "B"
                    ELSE "C"]
    /\ UNCHANGED <<pipelineVars, cli, plotter, parser, cred, lookup, tray>>

GradeCall ==
    /\ graded.pc = "called"
    /\ graded' = [graded EXCEPT !.pc = "done",
                                !.grade = grade(graded.CenterOffset, graded.AngleOff)]
    /\ UNCHANGED <<pipelineVars, cli, plotter, parser, cred, lookup, tray>>

NextGrade ==
    \/ GradeArgs
    \/ GradeCall

SpecGrade == Init /\ [][NextGrade]_vars

----------------------------------------------------------------------------
(* Alignment: ogp_height_plotter.py, PlotTool.get_offsets and what it calls *)

\* Most measured rows of one survey.
MaxFDRows == 4

Geometries == {"Full", "Left"}
Densities == {"LD", "HD"}
PositionIDs == {1, 3}

\* TrayNo as found in the metadata: the integer check_types writes, or a
\* 3-digit string.
TrayNos == {"int", "str3"}

\* param.py, pin_mapping (the Full and Left entries).
pin_mapping(geometry, density, position_id) ==
    CASE geometry = "Full" /\ density \in {"LD", "HD"} /\ position_id = 1
            -> <<"p1_center_pin", "p1O">>
      [] geometry = "Full" /\ density \in {"LD", "HD"} /\ position_id = 2
            -> <<"p2_center_pin", "p2M">>
      [] geometry = "Left" /\ density = "LD" /\ position_id = 1 -> <<"p1C", "p1I">>
      [] geometry = "Left" /\ density = "LD" /\ position_id = 2 -> <<"p2A", "p2K">>
      [] geometry = "Left" /\ density = "HD" /\ position_id = 1 -> <<"p1F", "p1P">>
      [] geometry = "Left" /\ density = "HD" /\ position_id = 2 -> <<"p2H", "p2N">>
      [] OTHER -> <<"", "">>

\* Coordinates of the hole pin in the tray file (0.01 mm).
HolePins == {<<0, 0>>, <<60, -60>>}

\* A row of np.full((8,2), np.nan).
NaNPoint == <<NaN, NaN>>

IsNaNPoint(pt) == pt[1] = NaN \/ pt[2] = NaN

\* The exception raised out of get_offsets, and the step that raised it:
\* nothing is returned.
Raise(name) == [plotter EXCEPT !.pc = "raised", !.error = name, !.at = plotter.pc]

\* name_field = f'{COMP_PREFIX[singular_type]}_name'
name_field(singular_type) ==
    CASE singular_type = "baseplate" -> "bp_name"
      [] singular_type = "hexaboard" -> "hxb_name"
      [] singular_type = "protomodule" -> "proto_name"
      [] OTHER -> "module_name"

\* plotter = PlotTool(metadata, comp_type, df, ...) in the protomodule/module
\* branch of __getArgs__; self.comp_type = component_type.rstrip('s').
PlotToolNew ==
    /\ plotter.pc = "none"
    /\ Singular(comp_type) \in {"protomodule", "module"}
    /\ \E g \in Geometries, dn \in Densities, pos \in PositionIDs, t \in TrayNos :
          plotter' = [plotter EXCEPT !.pc = "get_pin_coordinates",
                                     !.CompType = Singular(comp_type),
                                     !.Geometry = g, !.Density = dn,
                                     !.PositionID = pos, !.TrayNo = t]
    /\ UNCHANGED <<pipelineVars, cli, parser, graded, cred, lookup, tray>>

\* get_pin_coordinates with _get_tray_file: tray_id.isdigit() exists only on
\* strings; glob() may find no tray file; an unmapped combination gives the
\* names ('', '') and the key '_xy', which no tray file holds.
GetPinCoordinates ==
    /\ plotter.pc = "get_pin_coordinates"
    /\ \E found \in BOOLEAN, hole_pin_xy \in HolePins :
          LET names == pin_mapping(plotter.Geometry, plotter.Density, plotter.PositionID)
          IN  plotter' =
                 IF plotter.TrayNo = "int" THEN Raise("AttributeError")
                 ELSE IF ~found THEN Raise("IndexError")
                 ELSE IF names[1] = "" \/ names[2] = ""
                      THEN [Raise("KeyError") EXCEPT !.miss = "pin_mapping"]
                 ELSE [plotter EXCEPT !.pc = "get_FDs", !.Hole = hole_pin_xy]
    /\ UNCHANGED <<pipelineVars, cli, parser, graded, cred, lookup, tray>>

\* FD_number of a measured row: the position in fd_maps of the channel its
\* feature name holds, counted from 1; 0 stands for None (no channel of
\* fd_maps in the name), and those rows are dropped.
FDNumbers == {1, 2, 3, 4, 6}
RowNumbers == FDNumbers \cup {0}

\* The X and Y coordinates measured in the k-th row of the file (0.01 mm).
XY(k) ==
    CASE k = 1 -> <<0, 0>>
      [] k = 2 -> <<120, 60>>
      [] k = 3 -> <<-120, 0>>
      [] k = 4 -> <<1200, 0>>
      [] OTHER -> <<60 * k, -1200>>

Surveys == UNION {[1..n -> RowNumbers] : n \in 0..MaxFDRows}

\* FD_points.dropna(subset=['FD_number']): the rows that are kept.
Kept(rows) == SelectSeq([k \in 1..Len(rows) |-> k], LAMBDA k : rows[k] # 0)

\* np.argsort(FD_numbers) on a short array: position of every element in the
\* sorted order, equal numbers in file order.
ArgSort(FD_numbers) ==
    LET before(j) == {m \in 1..Len(FD_numbers) :
                         \/ FD_numbers[m] < FD_numbers[j]
                         \/ FD_numbers[m] = FD_numbers[j] /\ m < j}
    IN  [i \in 1..Len(FD_numbers) |->
            CHOOSE j \in 1..Len(FD_numbers) : Cardinality(before(j)) = i - 1]

\* The loop `for i, (x,y) in zip(FD_numbers, FD_points): FD_array[i-1] = [x,y]`
\* over np.full((8,2), np.nan): FD_numbers is in file order, FD_points is
\* sorted; a later pair overwrites an earlier one.
FillFDArray(FD_numbers, FD_points) ==
    [slot \in 1..8 |->
        LET js == {j \in 1..Len(FD_numbers) : FD_numbers[j] = slot}
        IN  IF js = {}
            THEN NaNPoint
            ELSE FD_points[CHOOSE j \in js : \A m \in js : m <= j]]

\* get_FDs(match_prefix='CH')
GetFDsResult(rows) ==
    LET kept == Kept(rows)
        FD_numbers == [j \in 1..Len(kept) |-> rows[kept[j]]]
        x_y_coords == [j \in 1..Len(kept) |-> XY(kept[j])]
        num_FDs == Len(x_y_coords)
        sort_indices == ArgSort(FD_numbers)
        FD_points == [i \in 1..num_FDs |-> x_y_coords[sort_indices[i]]]
    IN  IF num_FDs \notin {2, 4, 6, 8}
        THEN [ok |-> FALSE, FD_array |-> <<>>]
        ELSE [ok |-> TRUE, FD_array |-> FillFDArray(FD_numbers, FD_points)]

GetFDs ==
    /\ plotter.pc = "get_FDs"
    /\ \E rows \in Surveys :
          LET r == GetFDsResult(rows)
          IN  plotter' =
                 IF ~r.ok
                 THEN [Raise("ValueMissingError") EXCEPT !.rows = rows]
                 ELSE [plotter EXCEPT !.pc = "angle", !.rows = rows,
                                      !.FD_array = r.FD_array]
    /\ UNCHANGED <<pipelineVars, cli, parser, graded, cred, lookup, tray>>

\* Slots of FDPoints that hold a measured point.
Present(FDPoints) == {slot \in 1..8 : ~IsNaNPoint(FDPoints[slot])}

RECURSIVE SumPoints(_, _)
SumPoints(FDPoints, slots) ==
    IF slots = {}
    THEN <<0, 0>>
    ELSE LET slot == CHOOSE x \in slots : TRUE
             rest == SumPoints(FDPoints, slots \ {slot})
         IN  <<FDPoints[slot][1] + rest[1], FDPoints[slot][2] + rest[2]>>

\* np.mean(points_to_average, axis=0) over the rows in `slots`.
MeanPoints(FDPoints, slots) ==
    <<SumPoints(FDPoints, slots)[1] \div Cardinality(slots),
      SumPoints(FDPoints, slots)[2] \div Cardinality(slots)>>

\* angle(), lines 238-252: the fiducials averaged for the center, as slot
\* numbers (index + 1).
FDIndices(CompType, geometry, density) ==
    IF density = "HD"
    THEN IF geometry = "Full" THEN {1, 2, 3, 4} ELSE {1, 3}
    ELSE IF geometry = "Full"
         THEN IF CompType = "module" THEN {3, 6} ELSE {1, 2, 3, 4}
         ELSE {1, 3}

\* The entries angle_lookup can hold for a geometry: a dictionary from some
\* of the keys 'LD', 'HD', 'default' to the positions that have a function.
AngleTables ==
    UNION {[keys -> {{}, {1}}] : keys \in SUBSET {"LD", "HD", "default"}}

\* Only the dictionary of the exact density is looked into.
angle_func_exact_only(density_dict, density, position) ==
    IF density \in DOMAIN density_dict /\ position \in density_dict[density]
    THEN "density"
    ELSE "None"

\* angle(), lines 227-229:
\*   position_dict = density_dict.get(density, density_dict.get('default', {}))
\*   angle_func = position_dict.get(position)
\* The result names the dictionary the function was found in.
angle_func(density_dict, density, position) ==
    LET chain == IF density \in DOMAIN density_dict THEN "density"
                 ELSE IF "default" \in DOMAIN density_dict THEN "default"
                 ELSE "None"
        position_dict == CASE chain = "density" -> density_dict[density]
                           [] chain = "default" -> density_dict["default"]
                           [] OTHER -> {}
    IN  IF position \in position_dict THEN chain ELSE "None"

\* angle(), lines 226-232.
AngleLookup ==
    /\ plotter.pc = "angle"
    /\ \E density_dict \in AngleTables :
          plotter' =
             IF angle_func(density_dict, plotter.Density, plotter.PositionID) = "None"
             THEN [Raise("ValueError") EXCEPT !.miss = "angle_lookup"]
             ELSE [plotter EXCEPT !.pc = "get_FD_center"]
    /\ UNCHANGED <<pipelineVars, cli, parser, graded, cred, lookup, tray>>

\* The lookup of lines 226-232 on its own, for every entry, density and
\* position.
LookupArgs ==
    /\ lookup.pc = "none"
    /\ \E density_dict \in AngleTables, density \in Densities, position \in {1, 2} :
          lookup' = [lookup EXCEPT !.pc = "called", !.density_dict = density_dict,
                                   !.density = density, !.position = position]
    /\ UNCHANGED <<pipelineVars, cli, plotter, parser, graded, cred, tray>>

LookupCall ==
    /\ lookup.pc = "called"
    /\ lookup' = [lookup EXCEPT !.pc = "done", !.angle_func =
                     angle_func(lookup.density_dict, lookup.density, lookup.position)]
    /\ UNCHANGED <<pipelineVars, cli, plotter, parser, graded, cred, tray>>

NextLookup ==
    \/ LookupArgs
    \/ LookupCall

SpecLookup == Init /\ [][NextLookup]_vars

\* angle(), lines 238-252, with get_FD_center: when a selected fiducial is
\* missing and the operator continues, every measured row is averaged.
GetFDCenter ==
    /\ plotter.pc = "get_FD_center"
    /\ \E userinput \in Answers :
          LET FDPoints == plotter.FD_array
              fd_indices == FDIndices(plotter.CompType, plotter.Geometry, plotter.Density)
              anyNaN == \E slot \in fd_indices : IsNaNPoint(FDPoints[slot])
              points_to_average == IF anyNaN THEN Present(FDPoints) ELSE fd_indices
          IN  plotter' =
                 IF anyNaN /\ Lower(userinput) # "y"
                 THEN [Raise("ValueMissingError") EXCEPT !.fd_indices = fd_indices]
                 ELSE [plotter EXCEPT !.pc = "adjust", !.fd_indices = fd_indices,
                                      !.averaged = points_to_average,
                                      !.FDCenter = MeanPoints(FDPoints, points_to_average)]
    /\ UNCHANGED <<pipelineVars, cli, parser, graded, cred, lookup, tray>>

\* ADJUSTMENTS[CompType][geometry][density][position] (0.01 mm).
Adjustment(CompType, geometry, density, position) ==
    IF CompType = "module" THEN <<60, 0>> ELSE <<0, -60>>

\* AngleOffset = angle_FD - angle_Pin (0.001 degree) when the vector from FD3
\* to FD1 is defined: the slot pin of the tray can put it anywhere.
AngleOffsets == {-20001, 0, 20000}

\* angle(), lines 254-296: the adjustment is looked up outside the try block,
\* the fiducial angle function inside it; FD3to1 = FDPoints[0] - FDPoints[2].
AngleCompute ==
    /\ plotter.pc = "adjust"
    /\ \E hasAdjustment \in BOOLEAN, hasAngleCalc \in BOOLEAN, defined \in AngleOffsets :
          LET adjustment == Adjustment(plotter.CompType, plotter.Geometry,
                                       plotter.Density, plotter.PositionID)
              XOffset == plotter.FDCenter[1] - plotter.Hole[1] - adjustment[1]
              YOffset == plotter.FDCenter[2] - plotter.Hole[2] - adjustment[2]
              FD3to1NaN == IsNaNPoint(plotter.FD_array[1]) \/ IsNaNPoint(plotter.FD_array[3])
              AngleOffset == IF FD3to1NaN THEN NaN ELSE defined
          IN  plotter' =
                 IF ~hasAdjustment
                 THEN [Raise("KeyError") EXCEPT !.miss = "ADJUSTMENTS"]
                 ELSE IF ~hasAngleCalc
                 THEN [Raise("ValueError") EXCEPT !.miss = "ANGLE_CALC_CONFIG"]
                 ELSE [plotter EXCEPT !.pc = "range_check", !.XOffset = XOffset,
                                      !.YOffset = YOffset, !.AngleOff = AngleOffset]
    /\ UNCHANGED <<pipelineVars, cli, parser, graded, cred, lookup, tray>>

\* get_offsets, lines 485-492.
RangeCheck ==
    /\ plotter.pc = "range_check"
    /\ plotter' =
          IF FloatGT(Abs(plotter.AngleOff), 20000)
          THEN Raise("ValueRangeError")
          ELSE IF FloatGT(Abs(plotter.XOffset), 500) \/ FloatGT(Abs(plotter.YOffset), 500)
          THEN Raise("ValueRangeError")
          ELSE [plotter EXCEPT !.pc = "returned"]
    /\ UNCHANGED <<pipelineVars, cli, parser, graded, cred, lookup, tray>>

\* __getArgs__, lines 73-76: the returned offsets are graded and put into the
\* upload record.
GetArgsGrade ==
    /\ plotter.pc = "returned"
    /\ plotter' = [plotter EXCEPT !.pc = "graded",
                      !.grade = grade(<<plotter.XOffset, plotter.YOffset>>, plotter.AngleOff),
                      !.record = {name_field(plotter.CompType), "x_offset_mu",
                                  "y_offset_mu", "ang_offset_deg", "weight",
                                  "max_thickness", "avg_thickness", "grade"}]
    /\ UNCHANGED <<pipelineVars, cli, parser, graded, cred, lookup, tray>>

\* __getArgs__, lines 70-71: the record of a baseplate or hexaboard.
GetArgsFlat ==
    /\ plotter.pc = "none"
    /\ Singular(comp_type) \in {"baseplate", "hexaboard"}
    /\ plotter' = [plotter EXCEPT !.pc = "plot", !.CompType = Singular(comp_type),
                      !.record = {name_field(Singular(comp_type)), "flatness", "thickness"}]
    /\ UNCHANGED <<pipelineVars, cli, parser, graded, cred, lookup, tray>>

\* What GrabSensorOffsets gives for a protomodule that was uploaded before
\* (micrometers, micrometers, 0.001 degree).
PriorOffsets == <<10, -10, 5>>

\* __getArgs__, lines 77-86: the offsets handed to make_accuracy_plot.  For a
\* module the sensor side is what GrabSensorOffsets returns and the PCB side
\* the measured offsets; for a protomodule the PCB side is 0, 0, 0.  Without a
\* prior protomodule GrabSensorOffsets returns either a triple of zeros or
\* nothing that can be unpacked.
AccuracyPlot ==
    /\ plotter.pc = "graded"
    /\ \E prior \in {"present", "absent"}, unpacks \in BOOLEAN :
          LET measured == <<TimesThousand(plotter.XOffset),
                            TimesThousand(plotter.YOffset), plotter.AngleOff>>
          IN  plotter' =
                 IF plotter.CompType = "module"
                 THEN IF prior = "absent" /\ ~unpacks
                      THEN [Raise("TypeError") EXCEPT !.prior = prior]
                      ELSE [plotter EXCEPT !.pc = "plot", !.prior = prior,
                               !.Sensor = IF prior = "present"
                                          THEN PriorOffsets ELSE <<0, 0, 0>>,
                               !.PCB = measured,
                               !.record = plotter.record \cup {"offsetplot"}]
                 ELSE [plotter EXCEPT !.pc = "plot", !.Sensor = measured,
                          !.PCB = <<0, 0, 0>>,
                          !.record = plotter.record \cup {"offsetplot"}]
    /\ UNCHANGED <<pipelineVars, cli, parser, graded, cred, lookup, tray>>

\* __getArgs__, lines 90-101: the height plot, the fields every record has,
\* and getDateTime, whose strptime raises on a date that does not parse.
FinishRecord ==
    /\ plotter.pc = "plot"
    /\ \E dated \in BOOLEAN :
          plotter' =
             IF ~dated
             THEN Raise("ValueError")
             ELSE [plotter EXCEPT !.pc = "record",
                      !.record = plotter.record \cup
                         {"x_points", "y_points", "z_points", "hexplot", "inspector",
                          "comment", "date_inspect", "time_inspect"}]
    /\ UNCHANGED <<pipelineVars, cli, parser, graded, cred, lookup, tray>>

NextAlign ==
    \/ PlotToolNew
    \/ GetPinCoordinates
    \/ GetFDs
    \/ AngleLookup
    \/ GetFDCenter
    \/ AngleCompute
    \/ RangeCheck
    \/ GetArgsGrade
    \/ GetArgsFlat
    \/ AccuracyPlot
    \/ FinishRecord

SpecAlign == Init /\ [][NextAlign]_vars

----------------------------------------------------------------------------
(* Parser: parse_data.py, DataParser.output_meta *)

\* Longest ComponentID or Operator read from a header.
MaxIdLen == 2

illegal_chars == {"/", "\\", ":", "*", "?", "<", ">", "|"}
filename_fields == {"ComponentID", "Operator"}
required_keys ==
    {"TrayNo", "ComponentID", "Operator", "Geometry", "Density", "Flatness", "PositionID"}

\* Keys of default_params.
default_params == {"PositionID", "Geometry", "Density", "TrayNo"}

\* Characters of a header word: a legal one and two illegal ones.
Chars == {"a", ":", "/"}

\* The words {{ ComponentID }} and {{ Operator }} can match: not empty.
Words == UNION {[1..n -> Chars] : n \in 1..MaxIdLen}

\* Required keys the header template did not match.
MissingSets == SUBSET {"TrayNo", "Operator", "Geometry"}

\* str.capitalize() / str.upper() on the parsed Geometry and Density.
Capitalize(w) == CASE w = "full" -> "Full" [] OTHER -> w
Upper(w) == CASE w = "ld" -> "LD" [] OTHER -> w

has_illegal(w) == \E k \in DOMAIN w : w[k] \in illegal_chars

\* cleaned_value.replace(char, '') for every char of illegal_chars.
RemoveIllegal(w) == SelectSeq(w, LAMBDA c : c \notin illegal_chars)

ParserRaise(name) == [parser EXCEPT !.pc = "raised", !.error = name]

\* read_temp_sep: the header is parsed into header_results.
ReadTempSep ==
    /\ parser.pc = "none"
    /\ \E missing \in MissingSets, cid \in Words, op \in Words,
          g \in {"Full", "full", "Octo"}, dn \in {"LD", "ld", "MD"} :
          parser' = [parser EXCEPT !.pc = "check_missing_keys", !.missing = missing,
                        !.ComponentID = cid,
                        !.Operator = IF "Operator" \in missing THEN <<>> ELSE op,
                        !.Geometry = IF "Geometry" \in missing THEN "" ELSE g,
                        !.Density = dn]
    /\ UNCHANGED <<pipelineVars, cli, plotter, graded, cred, lookup, tray>>

\* check_missing_keys: adopt_default runs before the prompt and indexes
\* default_params with every missing key; after it no key is missing.
CheckMissingKeys ==
    /\ parser.pc = "check_missing_keys"
    /\ \E user_input \in Answers :
          parser' =
             IF parser.missing = {}
             THEN [parser EXCEPT !.pc = "check_types"]
             ELSE IF ~(parser.missing \subseteq default_params)
             THEN ParserRaise("KeyError")
             ELSE IF Lower(user_input) # "y"
             THEN ParserRaise("ParserKeyException")
             ELSE [parser EXCEPT !.pc = "check_types", !.missing = {},
                      !.adopted = parser.missing,
                      !.Geometry = IF "Geometry" \in parser.missing
                                   THEN "Full" ELSE parser.Geometry]
    /\ UNCHANGED <<pipelineVars, cli, plotter, graded, cred, lookup, tray>>

\* check_types: int() and float() raise ValueError on a word that is no number.
CheckTypes ==
    /\ parser.pc = "check_types"
    /\ \E numeric \in BOOLEAN :
          parser' =
             IF ~numeric
             THEN ParserRaise("ValueError")
             ELSE [parser EXCEPT !.pc = "check_missing_mappings",
                                 !.Density = Upper(parser.Density),
                                 !.Geometry = Capitalize(parser.Geometry)]
    /\ UNCHANGED <<pipelineVars, cli, plotter, graded, cred, lookup, tray>>

\* check_missing_mappings
CheckMissingMappings ==
    /\ parser.pc = "check_missing_mappings"
    /\ \E forGeometry \in Answers, forDensity \in Answers :
          LET noGeometry == parser.Geometry \notin {"Full", "Left", "Right", "Top", "Bottom", "Five"}
              noDensity == parser.Density \notin {"LD", "HD"}
          IN  parser' =
                 IF noGeometry /\ Lower(forGeometry) # "y"
                 THEN ParserRaise("ParserKeyException")
                 ELSE IF noDensity /\ Lower(forDensity) # "y"
                 THEN ParserRaise("ParserKeyException")
                 ELSE [parser EXCEPT !.pc = "check_illegal_chars",
                          !.Geometry = IF noGeometry THEN "Full" ELSE parser.Geometry,
                          !.Density = IF noDensity THEN "LD" ELSE parser.Density]
    /\ UNCHANGED <<pipelineVars, cli, plotter, graded, cred, lookup, tray>>

\* The value of one filename field after its prompt.
Cleaned(w, user_in) ==
    IF has_illegal(w) /\ Lower(user_in) = "y" THEN RemoveIllegal(w) ELSE w

\* check_illegal_chars: one prompt for each field that holds an illegal
\* character; only the answer y removes the characters.
CheckIllegalChars ==
    /\ parser.pc = "check_illegal_chars"
    /\ \E forComponentID \in Answers, forOperator \in Answers :
          parser' = [parser EXCEPT !.pc = "write",
                        !.ComponentID = Cleaned(parser.ComponentID, forComponentID),
                        !.Operator = Cleaned(parser.Operator, forOperator)]
    /\ UNCHANGED <<pipelineVars, cli, plotter, graded, cred, lookup, tray>>

\* output_meta, lines 111-115: the file named {ComponentID}_{Operator}_meta.yaml
\* is opened for writing; with a character the file system rejects in the name
\* open() may raise.
WriteMeta ==
    /\ parser.pc = "write"
    /\ \E opened \in BOOLEAN :
          parser' =
             IF ~opened /\ (has_illegal(parser.ComponentID) \/ has_illegal(parser.Operator))
             THEN ParserRaise("OSError")
             ELSE [parser EXCEPT !.pc = "written"]
    /\ UNCHANGED <<pipelineVars, cli, plotter, graded, cred, lookup, tray>>

NextParser ==
    \/ ReadTempSep
    \/ CheckMissingKeys
    \/ CheckTypes
    \/ CheckMissingMappings
    \/ CheckIllegalChars
    \/ WriteMeta

SpecParser == Init /\ [][NextParser]_vars

----------------------------------------------------------------------------
(* Credentials: config_utils.py, update_credentials *)

\* return False
CredReturnFalse == [cred EXCEPT !.pc = "done", !.ret = "False"]

\* Lines 42-50: the settings file and the configuration file are read.
ReadConfig ==
    /\ cred.pc = "start"
    /\ \E readable \in BOOLEAN :
          cred' = IF readable THEN [cred EXCEPT !.pc = "verify_current"]
                  ELSE CredReturnFalse
    /\ UNCHANGED <<pipelineVars, cli, plotter, parser, graded, lookup, tray>>

\* Lines 83-89: verify_credentials with the stored connection details.
VerifyCurrent ==
    /\ cred.pc = "verify_current"
    /\ \E connected \in BOOLEAN :
          cred' = IF connected
                  THEN [cred EXCEPT !.pc = "choice", !.verifiedCurrent = TRUE]
                  ELSE CredReturnFalse
    /\ UNCHANGED <<pipelineVars, cli, plotter, parser, graded, lookup, tray>>

\* An empty entry keeps the current value.
OrCurrent(entry, current) == IF entry = "" THEN current ELSE entry

\* Lines 91-115: what is to be updated; host and database are asked for
\* according to the choice.
Choice ==
    /\ cred.pc = "choice"
    /\ \E choice \in {"1", "2", "3", "4"}, host \in {"", "h1"}, database \in {"", "d1"} :
          cred' =
             IF choice = "3"
             THEN [cred EXCEPT !.pc = "credentials",
                      !.new_host = OrCurrent(host, cred.file.host),
                      !.new_database = OrCurrent(database, cred.file.database)]
             ELSE IF choice = "2"
             THEN [cred EXCEPT !.pc = "credentials", !.new_host = cred.file.host,
                      !.new_database = OrCurrent(database, cred.file.database)]
             ELSE IF choice # "1"
             THEN CredReturnFalse
             ELSE [cred EXCEPT !.pc = "credentials", !.new_host = cred.file.host,
                      !.new_database = cred.file.database]
    /\ UNCHANGED <<pipelineVars, cli, plotter, parser, graded, lookup, tray>>

\* Lines 117-124: the new user, and the new password entered twice.
EnterCredentials ==
    /\ cred.pc = "credentials"
    /\ \E new_user \in {"u1"}, new_password \in {"p1", "p2"},
          confirm_password \in {"p1", "p2"} :
          cred' =
             IF new_password # confirm_password
             THEN CredReturnFalse
             ELSE [cred EXCEPT !.pc = "verify_new", !.matched = TRUE,
                      !.new_user = new_user, !.new_password = new_password]
    /\ UNCHANGED <<pipelineVars, cli, plotter, parser, graded, lookup, tray>>

\* The result of the second verification is not looked at.
VerifyNewUnchecked ==
    /\ cred.pc = "verify_new"
    /\ \E connected \in BOOLEAN :
          cred' = [cred EXCEPT !.pc = "update_config_file", !.verifiedNew = connected]
    /\ UNCHANGED <<pipelineVars, cli, plotter, parser, graded, lookup, tray>>

\* Lines 126-127: verify_credentials with the new connection details.
VerifyNew ==
    /\ cred.pc = "verify_new"
    /\ \E connected \in BOOLEAN :
          cred' = IF connected
                  THEN [cred EXCEPT !.pc = "update_config_file", !.verifiedNew = TRUE]
                  ELSE CredReturnFalse
    /\ UNCHANGED <<pipelineVars, cli, plotter, parser, graded, lookup, tray>>

\* Lines 129-133 with update_config_file: open(config_file, 'w') may fail and
\* leave the file as it is; yaml.dump may fail after the file was truncated.
UpdateConfigFile ==
    /\ cred.pc = "update_config_file"
    /\ \E outcome \in {"written", "open failed", "dump failed"} :
          LET new == [host |-> cred.new_host, database |-> cred.new_database,
                      user |-> cred.new_user, password |-> cred.new_password,
                      intact |-> TRUE]
          IN  cred' =
                 CASE outcome = "written" ->
                         [cred EXCEPT !.pc = "done", !.ret = "True", !.file = new]
                   [] outcome = "open failed" -> CredReturnFalse
                   [] OTHER -> [CredReturnFalse EXCEPT !.file = [new EXCEPT !.intact = FALSE]]
    /\ UNCHANGED <<pipelineVars, cli, plotter, parser, graded, lookup, tray>>

NextCred ==
    \/ ReadConfig
    \/ VerifyCurrent
    \/ Choice
    \/ EnterCredentials
    \/ VerifyNew
    \/ UpdateConfigFile

SpecCred == Init /\ [][NextCred]_vars

----------------------------------------------------------------------------
(* TrayNo from the survey header to the tray file *)

\* len(tray_id) == 3: the length of a tray identifier.
TrayIdLen == 3

\* The digits a TrayNo of the header is written with.
TrayDigits == {0, 1, 2}

\* The TrayNo texts of a survey header.
TrayTexts == UNION {[1..n -> TrayDigits] : n \in 1..TrayIdLen}

RECURSIVE IntOf(_)
\* int(text) on a text of decimal digits.
IntOf(text) ==
    IF text = <<>> THEN 0
    ELSE 10 * IntOf(SubSeq(text, 1, Len(text) - 1)) + text[Len(text)]

RECURSIVE StrOf(_)
\* The decimal text yaml.dump and an f-string write for an int.
StrOf(n) == IF n < 10 THEN <<n>> ELSE Append(StrOf(n \div 10), n % 10)

\* The survey header holds a TrayNo.
TrayHeader ==
    /\ tray.pc = "none"
    /\ \E text \in TrayTexts :
          tray' = [tray EXCEPT !.pc = "check_types", !.header = text]
    /\ UNCHANGED <<pipelineVars, cli, plotter, parser, graded, cred, lookup>>

\* check_types: header_dict['TrayNo'] = int(header_dict['TrayNo'])
TrayCheckTypes ==
    /\ tray.pc = "check_types"
    /\ tray' = [tray EXCEPT !.pc = "output_meta", !.type = "int",
                            !.TrayNo = IntOf(tray.header)]
    /\ UNCHANGED <<pipelineVars, cli, plotter, parser, graded, cred, lookup>>

\* output_meta: yaml.dump(header_dict, f) writes the int as its decimal text.
TrayOutputMeta ==
    /\ tray.pc = "output_meta"
    /\ tray' = [tray EXCEPT !.pc = "getArgs", !.yaml = StrOf(tray.TrayNo)]
    /\ UNCHANGED <<pipelineVars, cli, plotter, parser, graded, cred, lookup>>

\* __getArgs__: metadata = yaml.safe_load(f); a plain scalar of decimal digits
\* without a leading zero is loaded as an int.
TraySafeLoad ==
    /\ tray.pc = "getArgs"
    /\ tray' = [tray EXCEPT !.pc = "get_pin_coordinates", !.type = "int",
                            !.TrayNo = IntOf(tray.yaml)]
    /\ UNCHANGED <<pipelineVars, cli, plotter, parser, graded, cred, lookup>>

\* get_pin_coordinates on the loaded metadata: tray_id.isdigit() exists on a
\* str only and raises AttributeError on an int; otherwise _get_tray_file
\* looks for the file f"{tray_id}.yaml".
TrayGetPinCoordinates ==
    /\ tray.pc = "get_pin_coordinates"
    /\ tray' = IF tray.type = "int"
               THEN [tray EXCEPT !.pc = "raised", !.error = "AttributeError"]
               ELSE [tray EXCEPT !.pc = "tray_file", !.file = StrOf(tray.TrayNo)]
    /\ UNCHANGED <<pipelineVars, cli, plotter, parser, graded, cred, lookup>>

NextTray ==
    \/ TrayHeader
    \/ TrayCheckTypes
    \/ TrayOutputMeta
    \/ TraySafeLoad
    \/ TrayGetPinCoordinates

SpecTray == Init /\ [][NextTray]_vars

----------------------------------------------------------------------------
(* Properties *)

\* Positions of the log.
Pos == 1..Len(log)

\* Events that are a call or a prompt for one file of the batch.
FileOps == {"getArgs", "link", "prompt", "pg"}

\* The upload of file index i returned success at a position before p.
UploadedBefore(i, p) ==
    \E q \in 1..(p - 1) : log[q] \in {Event("link", i, "ok"), Event("pg", i, "ok")}

\* The event ends the processing of its file without an upload.
IsFailure(e) ==
    \/ e.op = "getArgs" /\ e.res # "ok"
    \/ e.op = "prompt" /\ Lower(e.res) = "n"
    \/ e.op = "pg" /\ e.res = "fail"

\* Number of calls of op for file index i in the current invocation.
Calls(op, i) == Cardinality({p \in Pos : log[p].op = op /\ log[p].idx = i})

\* Files whose upload returned success in the current invocation.
UploadedFiles == {FileAt(i) : i \in UploadedIdx}

\* The current invocation was aborted: process_and_upload returned False or
\* an exception left it.
Aborted == pc = "raised" \/ (ret # NoRet /\ ~ret[1])

\* The files process_and_upload reports as done to its caller.
DoneSet == IF ret # NoRet THEN Reported(ret) ELSE {}

\* C1: across all runs every survey file has at most one successful upload
\* in the database.
C1_AtMostOneUpload == \A f \in Files : uploads[f] <= 1

\* C2: a file index counts as done (it is <= last_successful_index, and <=
\* the returned index) only if an upload call for that file has returned
\* success before.
C2_DoneOnlyAfterUpload ==
    /\ \A i \in 0..last_successful_index : i \in UploadedIdx
    /\ ret # NoRet => \A i \in 0..ret[2] : i \in UploadedIdx

C2_Witness ==
    /\ ret = <<FALSE, 1>>
    /\ Event("pg", 0, "ok") \in Events
    /\ Event("link", 1, "ok") \in Events

\* Indices whose linked upload failed and that were not uploaded by the
\* fallback either (the fallback failed or the operator declined).
FailedIdx == {i \in 0..(NumFiles - 1) :
                 Event("link", i, "fail") \in Events /\ i \notin UploadedIdx}

SetMin(S) == CHOOSE x \in S : \A y \in S : x <= y
SetMax(S) == CHOOSE x \in S : \A y \in S : x >= y

C4_StrictlySequential ==
    \A p \in Pos :
        /\ log[p].op \in FileOps =>
              /\ \A j \in 0..(log[p].idx - 1) : UploadedBefore(j, p)
              /\ \A q \in 1..(p - 1) :
                    log[q].op \in FileOps => log[q].idx <= log[p].idx
        /\ log[p].op = "getArgs" =>
              \A q \in 1..(p - 1) : ~(log[q].op = "getArgs" /\ log[q].idx = log[p].idx)
        /\ log[p].op \in {"link", "pg"} =>
              \E q \in 1..(p - 1) : log[q] = Event("getArgs", log[p].idx, "ok")
        /\ IsFailure(log[p]) => p = Len(log)

C4_Witness ==
    /\ pc = "idle"
    /\ Len(log) > 0
    /\ log[Len(log)] = Event("pg", 1, "fail")
    /\ Event("link", 0, "ok") \in Events

\* C5: after an aborted batch the done-set the run reports is exactly the set
\* of files whose upload returned success in that run.
C5_AbortReportsUploaded == Aborted => DoneSet = UploadedFiles

\* C6: after a run in which a file failed, the files before it are in the
\* inventory, and the next run neither parses nor uploads them again.
C6_Resumable ==
    /\ pc = "idle" => lastFailPrefix \subseteq inventory
    /\ pc \in {"parse", "loop", "getArgs", "link", "prompt", "fallback"} =>
          {data_file[k] : k \in 1..Len(data_file)} \cap lastFailPrefix = {}

C8_FallbackNeedsConfirmation ==
    \A p \in Pos :
        /\ log[p].op = "pg" =>
              /\ p >= 3
              /\ log[p - 1].op = "prompt"
              /\ log[p - 1].idx = log[p].idx
              /\ Lower(log[p - 1].res) \in Affirmative
              /\ log[p - 2] = Event("link", log[p].idx, "fail")
        /\ (log[p].op = "prompt" /\ Lower(log[p].res) \notin Affirmative) =>
              \A q \in (p + 1)..Len(log) : log[q].op \notin {"link", "pg"}

\* C9: within one run link_and_update_table and upload_PostgreSQL are each
\* called at most once per file, and no upload call follows a failed
\* fallback upload.
C9_NoRetry ==
    /\ \A i \in 0..(NumFiles - 1) : Calls("link", i) <= 1 /\ Calls("pg", i) <= 1
    /\ \A p \in Pos :
          (log[p].op = "pg" /\ log[p].res = "fail") =>
              \A q \in (p + 1)..Len(log) : log[q].op \notin {"link", "pg"}

C9_Witness ==
    /\ pc = "idle"
    /\ Event("pg", 1, "fail") \in Events
    /\ Calls("link", 0) = 1
    /\ Calls("link", 1) = 1

\* The operator declined to continue after a rejected upload.
Declined == \E e \in Events : e.op = "prompt" /\ Lower(e.res) = "n"

\* C10: the finished program has exit status 0 when every discovered file was
\* uploaded, and a non-zero exit status when a file was rejected and the
\* operator declined to continue.
C10_ExitStatus ==
    (pc = "idle" /\ runs > 0) =>
        /\ RunComplete => exitCode = 0
        /\ Declined => exitCode # 0

\* C11: started with --disable, the program does not run main_func, the only
\* branch that builds the InventoryUpdater and uploads.
C11_DisableNoUpload == "disable" \in cli.args => cli.ran # "main_func"

\* Rank of a grade: A is better than B is better than C.
Rank(g) == CASE g = "A" -> 1 [] g = "B" -> 2 [] OTHER -> 3

\* C13: grade is monotonic: an argument triple that differs from the graded
\* one in a single component, of larger or equal absolute value, never gets a
\* better grade.
C13_GradeMonotonic ==
    graded.pc = "done" /\ graded.AngleOff # NaN =>
       LET x == graded.CenterOffset[1]
           y == graded.CenterOffset[2]
           a == graded.AngleOff
       IN  /\ \A x2 \in GradeLengths :
                 Abs(x2) >= Abs(x) => Rank(grade(<<x2, y>>, a)) >= Rank(graded.grade)
           /\ \A y2 \in GradeLengths :
                 Abs(y2) >= Abs(y) => Rank(grade(<<x, y2>>, a)) >= Rank(graded.grade)
           /\ \A a2 \in GradeAngles \ {NaN} :
                 Abs(a2) >= Abs(a) => Rank(grade(<<x, y>>, a2)) >= Rank(graded.grade)

OffsetsReturned ==
    /\ plotter.CompType \in {"protomodule", "module"}
    /\ \/ plotter.pc \in {"returned", "graded", "plot", "record"}
       \/ plotter.pc = "raised" /\ plotter.at \in {"graded", "plot"}

\* C12: every result get_offsets returns, or that is graded, has an angle
\* offset within 20 degrees and axis offsets within 5 mm.
C12_OffsetsInRange ==
    OffsetsReturned =>
       /\ plotter.AngleOff # NaN /\ Abs(plotter.AngleOff) <= 20000
       /\ plotter.XOffset # NaN /\ Abs(plotter.XOffset) <= 500
       /\ plotter.YOffset # NaN /\ Abs(plotter.YOffset) <= 500

\* The fiducials the survey measured: the distinct FD numbers of its rows.
SurveyFiducials(rows) == {rows[k] : k \in DOMAIN rows} \ {0}

\* The offset computation (get_FDs, then angle and the range check) is over.
OffsetsDone ==
    \/ OffsetsReturned
    \/ plotter.pc = "raised" /\ plotter.at \notin {"get_pin_coordinates", "graded", "plot"}

\* C15: a survey with 2, 4, 6 or 8 present fiducials gets a result from the
\* offset computation, every other survey an input-data error.
C15_CountDecides ==
    OffsetsDone =>
       IF Cardinality(SurveyFiducials(plotter.rows)) \in {2, 4, 6, 8}
       THEN OffsetsReturned
       ELSE plotter.pc = "raised" /\ plotter.error = "ValueMissingError"

\* C16: the array get_FDs returns has 2, 4, 6 or 8 present slots.
C16_PresentCardinality ==
    plotter.FD_array # <<>> =>
       Cardinality(Present(plotter.FD_array)) \in {2, 4, 6, 8}

\* C17: only fiducials of the selection rule are averaged into the center.
C17_OnlySelectedAveraged ==
    plotter.pc \in {"adjust", "range_check", "returned", "graded"} =>
       plotter.averaged \subseteq plotter.fd_indices

\* C18: a combination missing from the pin map does not make
\* get_pin_coordinates fail.
C18_MissingPinsNotFatal == plotter.miss = "pin_mapping" => plotter.pc # "raised"

\* C19: when a table of angle() has no rule for the combination, angle()
\* fails with the configuration error (ValueError).
C19_NoRuleIsConfigurationError ==
    plotter.miss \in {"angle_lookup", "ADJUSTMENTS", "ANGLE_CALC_CONFIG"} =>
       plotter.pc = "raised" /\ plotter.error = "ValueError"

\* C20: in written metadata ComponentID and Operator are not empty and hold
\* no path-illegal character.
C20_FilenameFieldsClean ==
    parser.pc = "written" =>
       /\ parser.ComponentID # <<>> /\ ~has_illegal(parser.ComponentID)
       /\ parser.Operator # <<>> /\ ~has_illegal(parser.Operator)

\* Required keys the parsed header lacked.
Lacked == parser.missing \cup parser.adopted

\* C21: a header that lacks a required field makes parsing fail with the
\* missing-field error (ParserKeyException); no metadata is written for it.
C21_MissingFieldFails ==
    Lacked # {} /\ parser.pc \notin {"none", "check_missing_keys"} =>
       parser.pc = "raised" /\ parser.error = "ParserKeyException"

\* C22: a module whose prior protomodule offsets are absent still gets its
\* record, with an accuracy comparison whose PCB-side offsets are zero.
C22_AbsentPriorZeroedPCB ==
    plotter.prior = "absent" =>
       /\ plotter.pc # "raised" \/ plotter.at # "graded"
       /\ plotter.PCB = <<0, 0, 0>>

\* C23: the finished record of a protomodule or module holds the fields of a
\* baseplate/hexaboard record (identity, flatness, mean thickness) and the
\* offsets, grade, max and mean thickness, weight and accuracy image.
C23_ModuleRecordHoldsBaseFields ==
    plotter.pc = "record" /\ plotter.CompType \in {"protomodule", "module"} =>
       /\ name_field(plotter.CompType) \in plotter.record
       /\ "flatness" \in plotter.record
       /\ "thickness" \in plotter.record \/ "avg_thickness" \in plotter.record
       /\ {"x_offset_mu", "y_offset_mu", "ang_offset_deg", "grade", "max_thickness",
           "avg_thickness", "weight", "offsetplot"} \subseteq plotter.record

\* The three conditions of a rewrite: the stored credentials authenticated,
\* the two password entries matched, the new connection details authenticated.
AllVerified == cred.verifiedCurrent /\ cred.matched /\ cred.verifiedNew

C25_SlotHoldsItsFiducial ==
    plotter.FD_array # <<>> =>
       \A slot \in 1..8 :
          LET ks == {k \in DOMAIN plotter.rows : plotter.rows[k] = slot}
          IN  IF ks = {}
              THEN IsNaNPoint(plotter.FD_array[slot])
              ELSE \E k \in ks : plotter.FD_array[slot] = XY(k)

\* get_FDs has been called and is over.
GetFDsDone ==
    /\ plotter.CompType \in {"protomodule", "module"}
    /\ plotter.pc \notin {"none", "get_pin_coordinates", "get_FDs"}
    /\ plotter.pc = "raised" => plotter.at # "get_pin_coordinates"

\* C26: a survey whose number of present fiducials is not 2, 4, 6 or 8 ends
\* in get_FDs with the input-data error; angle() and what follows it are not
\* reached.
C26_BadCountStopsInGetFDs ==
    GetFDsDone /\ Cardinality(SurveyFiducials(plotter.rows)) \notin {2, 4, 6, 8} =>
       plotter.pc = "raised" /\ plotter.at = "get_FDs"
          /\ plotter.error = "ValueMissingError"

\* The position has a function in the dictionary of the exact density.
InDensityChain ==
    /\ lookup.density \in DOMAIN lookup.density_dict
    /\ lookup.position \in lookup.density_dict[lookup.density]

\* The position has a function in the 'default' dictionary.
InDefaultChain ==
    /\ "default" \in DOMAIN lookup.density_dict
    /\ lookup.position \in lookup.density_dict["default"]

C28_TrueMeansEverySurveyFileUploaded ==
    (pc = "returned" /\ ret[1] = TRUE) =>
        \A i \in 0..(Len(OGPSurveyFile) - 1) : i \in UploadedIdx


\* C29: for every survey header whose TrayNo is a 3-digit identifier, the
\* metadata written by the parser passes the tray-id check of
\* get_pin_coordinates, and the tray file looked up is the one named by that
\* same identifier.
C29_TrayNoSurvivesHandOff ==
    (tray.pc \in {"raised", "tray_file"} /\ Len(tray.header) = TrayIdLen) =>
        (tray.pc = "tray_file" /\ tray.file = tray.header)


\* C30: get_offsets returns a result only when every returned value is a
\* defined number: with fiducial 1 or fiducial 3 missing, or the fiducial
\* center undefined, the range validation stops the result and nothing is
\* graded or put into a record.
C30_OnlyDefinedOffsetsReturned ==
    OffsetsReturned =>
       /\ ~IsNaNPoint(plotter.FD_array[1])
       /\ ~IsNaNPoint(plotter.FD_array[3])
       /\ ~IsNaNPoint(plotter.FDCenter)
       /\ NaN \notin {plotter.XOffset, plotter.YOffset, plotter.AngleOff}

====
